---- MODULE Spec2Model ----
(***************************************************************************)
(* Model of scripts/extract_rules_from_pdf.py: the CASS layout-to-record   *)
(* extraction pipeline (line grouping, anchor detection, body harvesting,  *)
(* paragraph reflow, de-duplication, sorting).                              *)
(*                                                                         *)
(* Texts are TLA+ strings; a character is a string of length one.  The     *)
(* regular expressions of the script are written out as operators over     *)
(* strings.  Coordinates are integers (points); the x ratios are kept as    *)
(* percentages, so  x >= W * 0.46  is written  100 * x >= 46 * W.           *)
(***************************************************************************)
EXTENDS Integers, Sequences, FiniteSets, TLC

VARIABLES
    \* ---- main
    pc,            \* "idle" | "loop" | "harvest" | "done"
    min_body_len,  \* args.min_body_len
    nfiles,        \* the paths of args.pdfs taken so far
    nopened,       \* those of them that existed and were opened
    pdf,           \* the descriptor of the document opened last
    anchors,       \* detect_anchors(pdf, ...)
    idx,           \* harvest_bodies: the next anchor to harvest (from 1)
    out,           \* harvest_bodies: the dict it builds
    raw_lines,     \* harvest_bodies: raw_lines of the anchor harvested last
    text,          \* harvest_bodies: the reflowed text of that anchor
    all_entries,   \* the merged record map
    items,         \* the sorted output
    written,       \* the output file has been written
    status,        \* "running" | "ok" | "failed"
    harvested,     \* history: every (key, text) that passed the length filter
    opened,        \* history: the documents opened so far, in order
    \* ---- reflow_paragraphs_from_lines applied to a list of lines, then to
    \* ---- its own output given back as one line
    rf_pc,         \* "idle" | "start" | "once" | "again"
    rf_lines,      \* the input list of lines (records with a text field)
    rf_text,       \* the text returned by the first call
    rf_again       \* the text returned when rf_text is fed back as one line

rfvars == <<rf_pc, rf_lines, rf_text, rf_again>>

pipevars ==
    <<pc, min_body_len, nfiles, nopened, pdf, anchors, idx, out, raw_lines, text,
      all_entries, items, written, status, harvested, opened>>

vars == <<pipevars, rfvars>>

(***************************************************************************)
(* Characters and Python string helpers                                    *)
(***************************************************************************)
Ch(s, i) == SubSeq(s, i, i)

WS == {" ", "\n", "\t"}
DIGITS == {"0", "1", "2", "3", "4", "5", "6", "7", "8", "9"}
UpperStr == "ABCDEFGHIJKLMNOPQRSTUVWXYZ"
LowerStr == "abcdefghijklmnopqrstuvwxyz"
UPPERS == {Ch(UpperStr, i) : i \in 1..26}
LOWERS == {Ch(LowerStr, i) : i \in 1..26}
\* \w of the re module, on the ASCII characters the model uses
WORDCH == UPPERS \cup LOWERS \cup DIGITS \cup {"_"}

LowerCh(c) ==
    IF c \in UPPERS
    THEN Ch(LowerStr, CHOOSE i \in 1..26 : Ch(UpperStr, i) = c)
    ELSE c

RECURSIVE LowerFrom(_, _)
LowerFrom(s, i) ==
    IF i > Len(s) THEN "" ELSE LowerCh(Ch(s, i)) \o LowerFrom(s, i + 1)

\* str.lower()
Lower(s) == LowerFrom(s, 1)

\* str.strip()
Strip(s) ==
    LET nb == {i \in 1..Len(s) : Ch(s, i) \notin WS}
    IN  IF nb = {} THEN ""
        ELSE LET a == CHOOSE i \in nb : \A j \in nb : i <= j
                 b == CHOOSE i \in nb : \A j \in nb : j <= i
             IN  SubSeq(s, a, b)

\* p in s
Contains(s, p) ==
    \E i \in 1..(Len(s) - Len(p) + 1) : SubSeq(s, i, i + Len(p) - 1) = p

\* re.search(r"[<class>]", s)
HasAny(s, class) == \E i \in 1..Len(s) : Ch(s, i) \in class

\* s.endswith(p)
EndsWith(s, p) ==
    Len(s) >= Len(p) /\ SubSeq(s, Len(s) - Len(p) + 1, Len(s)) = p

\* the index after the longest run of characters of class that starts at i
RECURSIVE RunEnd(_, _, _)
RunEnd(s, i, class) ==
    IF i <= Len(s) /\ Ch(s, i) \in class THEN RunEnd(s, i + 1, class) ELSE i

\* s.split()[0] of a string that holds a non-blank character
FirstToken(s) ==
    LET a == RunEnd(s, 1, WS)
        rest == {i \in a..Len(s) : Ch(s, i) \in WS}
        b == IF rest = {} THEN Len(s) + 1 ELSE CHOOSE i \in rest : \A j \in rest : i <= j
    IN  SubSeq(s, a, b - 1)

(***************************************************************************)
(* A small matcher for the script's anchored patterns.  A pattern is a     *)
(* sequence of elements; each element's class is disjoint from what        *)
(* follows it, so the greedy match is the only match.                      *)
(*   [k |-> "lit", v |-> str]   the literal str                            *)
(*   [k |-> "ws1"] \s+   [k |-> "ws0"] \s*   [k |-> "d1"] \d+              *)
(*   [k |-> "d4"]  \d{4}                                                   *)
(* MatchFrom gives the index after the match, or 0 when there is none.     *)
(***************************************************************************)
Lit(str) == [k |-> "lit", v |-> str]
Ws1 == [k |-> "ws1", v |-> ""]
Ws0 == [k |-> "ws0", v |-> ""]
D1 == [k |-> "d1", v |-> ""]
D4 == [k |-> "d4", v |-> ""]

RECURSIVE MatchFrom(_, _, _, _)
MatchFrom(s, i, pat, n) ==
    IF n > Len(pat) THEN i
    ELSE LET e == pat[n]
             j == CASE e.k = "lit" ->
                         IF i + Len(e.v) - 1 <= Len(s) /\ SubSeq(s, i, i + Len(e.v) - 1) = e.v
                         THEN i + Len(e.v) ELSE 0
                    [] e.k = "ws1" ->
                         IF RunEnd(s, i, WS) > i THEN RunEnd(s, i, WS) ELSE 0
                    [] e.k = "ws0" -> RunEnd(s, i, WS)
                    [] e.k = "d1" ->
                         IF RunEnd(s, i, DIGITS) > i THEN RunEnd(s, i, DIGITS) ELSE 0
                    [] e.k = "d4" ->
                         IF RunEnd(s, i, DIGITS) >= i + 4 THEN i + 4 ELSE 0
         IN  IF j = 0 THEN 0 ELSE MatchFrom(s, j, pat, n + 1)

\* the pattern matches the whole of s
FullMatch(s, pat) == MatchFrom(s, 1, pat, 1) = Len(s) + 1

(***************************************************************************)
(* Furniture                                                               *)
(***************************************************************************)
\* DROP_LINE_RE.match(s), re.I:
\*   ^\s*(www\.handbook\.fca\.org\.uk|FCA\s+\d{4}/\d+|Page\s+\d+\s+of\s+\d+)\s*$
DROP_LINE_RE(s) ==
    LET t == Lower(s)
    IN  \/ FullMatch(t, <<Ws0, Lit("www.handbook.fca.org.uk"), Ws0>>)
        \/ FullMatch(t, <<Ws0, Lit("fca"), Ws1, D4, Lit("/"), D1, Ws0>>)
        \/ FullMatch(t, <<Ws0, Lit("page"), Ws1, D1, Ws1, Lit("of"), Ws1, D1, Ws0>>)

MONTHS ==
    {"january", "february", "march", "april", "may", "june", "july", "august",
     "september", "october", "november", "december"}

\* \b at index i of s (between s[i-1] and s[i])
WordBoundary(s, i) ==
    LET before == i > 1 /\ Ch(s, i - 1) \in WORDCH
        after == i <= Len(s) /\ Ch(s, i) \in WORDCH
    IN  before # after

\* FOOTER_DATE_RE.search(s), re.I:  \b(<month>)\s+20\d{2}\b
FOOTER_DATE_RE(s) ==
    LET t == Lower(s)
    IN  \E i \in 1..Len(t) : \E m \in MONTHS :
            /\ WordBoundary(t, i)
            /\ LET j == MatchFrom(t, i, <<Lit(m), Ws1, Lit("20")>>, 1)
               IN  /\ j # 0
                   /\ j + 1 <= Len(t)
                   /\ Ch(t, j) \in DIGITS
                   /\ Ch(t, j + 1) \in DIGITS
                   /\ WordBoundary(t, j + 2)

DROP_HINTS ==
    {"Actions for damages", "Section 138D", "Rights of Action",
     "For private person", "Removed?", "For other person"}

\* the non-ASCII dashes of the pattern are outside the model's alphabet
DotLeader(s) == Len(s) >= 1 /\ \A i \in 1..Len(s) : Ch(s, i) \in ({".", "-"} \cup WS)

should_drop_line_text(s) ==
    \/ Strip(s) = ""
    \/ DROP_LINE_RE(s)
    \/ FOOTER_DATE_RE(s)
    \/ \E h \in DROP_HINTS : Contains(Lower(s), Lower(h))
    \/ DotLeader(s)

(***************************************************************************)
(* Paragraph reflow                                                        *)
(***************************************************************************)
ROMAN == {"i", "v", "x", "l", "c", "d", "m"}

\* LIST_START_RE.match(tok), re.I | re.X:
\*   ^( \(\d+\) | \([a-z]\) | \d+\.\s | \([ivxlcdm]+\) )$
\* In verbose mode the \s of the third alternative stays part of it: the
\* digits and the period must be followed by one whitespace character.
LIST_START_RE(tok) ==
    LET t == Lower(tok)
        n == Len(t)
    IN  \/ FullMatch(t, <<Lit("("), D1, Lit(")")>>)
        \/ n = 3 /\ Ch(t, 1) = "(" /\ Ch(t, 2) \in LOWERS /\ Ch(t, 3) = ")"
        \/ /\ MatchFrom(t, 1, <<D1, Lit(".")>>, 1) = n
           /\ n >= 1 /\ Ch(t, n) \in WS
        \/ /\ n >= 3 /\ Ch(t, 1) = "(" /\ Ch(t, n) = ")"
           /\ \A i \in 2..(n - 1) : Ch(t, i) \in ROMAN

\* re.sub(r"(\w)-\s*$", r"\1", s)
dehyphen(s) ==
    LET nb == {i \in 1..Len(s) : Ch(s, i) \notin WS}
        b == IF nb = {} THEN 0 ELSE CHOOSE i \in nb : \A j \in nb : j <= i
    IN  IF b >= 2 /\ Ch(s, b) = "-" /\ Ch(s, b - 1) \in WORDCH
        THEN SubSeq(s, 1, b - 1)
        ELSE s

\* the lines kept by the first loop: those should_drop_line_text lets through
RECURSIVE CleanedFrom(_, _)
CleanedFrom(lines, i) ==
    IF i > Len(lines) THEN <<>>
    ELSE IF should_drop_line_text(lines[i].text) THEN CleanedFrom(lines, i + 1)
         ELSE <<lines[i].text>> \o CleanedFrom(lines, i + 1)

\* the second loop: strip every line, collapse runs of blank lines to one ""
RECURSIVE CollapseFrom(_, _, _)
CollapseFrom(cleaned, i, last_blank) ==
    IF i > Len(cleaned) THEN <<>>
    ELSE IF Strip(cleaned[i]) = ""
         THEN (IF last_blank THEN <<>> ELSE <<"">>) \o CollapseFrom(cleaned, i + 1, TRUE)
         ELSE <<Strip(cleaned[i])>> \o CollapseFrom(cleaned, i + 1, FALSE)

\* commit(): buf.append(acc.strip()) when acc holds a non-blank character
commit(buf, acc) == IF Strip(acc) # "" THEN Append(buf, Strip(acc)) ELSE buf

\* "\n\n".join(buf)
RECURSIVE JoinFrom(_, _, _)
JoinFrom(buf, i, sep) ==
    IF i > Len(buf) THEN ""
    ELSE IF i = Len(buf) THEN buf[i]
         ELSE buf[i] \o sep \o JoinFrom(buf, i + 1, sep)

\* the third loop, from line i on, with the paragraphs buf and the open one acc
RECURSIVE ReflowFrom(_, _, _, _)
ReflowFrom(tmp, i, buf, acc) ==
    IF i > Len(tmp) THEN JoinFrom(commit(buf, acc), 1, "\n\n")
    ELSE IF tmp[i] = "" THEN ReflowFrom(tmp, i + 1, commit(buf, acc), "")
    ELSE LET s == dehyphen(tmp[i])
         IN  IF LIST_START_RE(FirstToken(s))
             THEN ReflowFrom(tmp, i + 1, commit(buf, acc), s)
             ELSE IF EndsWith(acc, ":")
             THEN ReflowFrom(tmp, i + 1, commit(buf, acc), s)
             ELSE IF acc = ""
             THEN ReflowFrom(tmp, i + 1, buf, s)
             ELSE ReflowFrom(tmp, i + 1, buf, acc \o " " \o s)

reflow_paragraphs_from_lines(lines) ==
    ReflowFrom(CollapseFrom(CleanedFrom(lines, 1), 1, FALSE), 1, <<>>, "")

(***************************************************************************)
(* Configuration: the defaults of the command line                         *)
(***************************************************************************)
LEFT_MAX_PCT == 46
RIGHT_MIN_PCT == 42
Y_TOL == 3
TYPE_DX == 18
TYPE_DY == 4
BODY_MARGIN == 14
HEADING_SIZE_MIN == 12
MIN_BODY_LEN_DEFAULT == 40

Abs(n) == IF n < 0 THEN 0 - n ELSE n

SetMin(S) == CHOOSE x \in S : \A y \in S : x <= y
SetMax(S) == CHOOSE x \in S : \A y \in S : y <= x

\* sorted(seq, key=...), which is stable; le[i, j] is key(seq[i]) <= key(seq[j]).
\* Element i goes after the elements that sort before it: the earlier ones
\* with a key <= its key and the later ones with a key < its key.
Sorted(seq, le) ==
    LET n == Len(seq)
        pos == [i \in 1..n |-> 1 + Cardinality({j \in 1..n :
                       \/ j < i /\ le[j, i]
                       \/ j > i /\ ~le[i, j]})]
    IN  [k \in 1..n |-> seq[CHOOSE i \in 1..n : pos[i] = k]]

(***************************************************************************)
(* Tokens and lines.  A document is a sequence of pages; a page is a       *)
(* record [width, words]; a word carries text, x0, x1, top, bold (its font *)
(* name holds "Bold") and size.  Pages are PAGE_HEIGHT tall, and the       *)
(* layout engine gives each word its doctop: top plus the heights of the   *)
(* pages before it.  A word also carries its page index (pg), which the    *)
(* script does not read.                                                   *)
(***************************************************************************)
PAGE_HEIGHT == 100

ByDoctopX0(a, b) == a.doctop < b.doctop \/ (a.doctop = b.doctop /\ a.x0 <= b.x0)
ByX0(a, b) == a.x0 <= b.x0
ByDoctop(a, b) == a.doctop <= b.doctop

\* page.extract_words(...) of page pi (0-based) of a document
extract_words(pages, pi) ==
    LET ws == pages[pi + 1].words
    IN  [k \in 1..Len(ws) |->
            [text |-> ws[k].text, x0 |-> ws[k].x0, x1 |-> ws[k].x1, top |-> ws[k].top,
             doctop |-> ws[k].top + pi * PAGE_HEIGHT, bold |-> ws[k].bold,
             size |-> ws[k].size, pg |-> pi]]

\* sorted(ws, key=lambda w: (w["doctop"], w["x0"]))
SortByDoctopX0(ws) ==
    Sorted(ws, [i, j \in 1..Len(ws) |-> ByDoctopX0(ws[i], ws[j])])

words_sorted(pages, pi) == SortByDoctopX0(extract_words(pages, pi))

\* " ".join(w["text"] for w in ws)
RECURSIVE JoinTexts(_, _)
JoinTexts(ws, i) ==
    IF i > Len(ws) THEN ""
    ELSE IF i = Len(ws) THEN ws[i].text
         ELSE ws[i].text \o " " \o JoinTexts(ws, i + 1)

\* a line whose x0 is that of its rightmost word
PackLineRightmost(ws0) ==
    LET ws == Sorted(ws0, [i, j \in 1..Len(ws0) |-> ByX0(ws0[i], ws0[j])])
        ks == 1..Len(ws)
    IN  [text |-> Strip(JoinTexts(ws, 1)),
         x0 |-> SetMax({ws[k].x0 : k \in ks}),
         x1 |-> SetMax({ws[k].x1 : k \in ks}),
         top |-> SetMin({ws[k].top : k \in ks}),
         doctop |-> SetMin({ws[k].doctop : k \in ks}),
         bold |-> \E k \in ks : ws[k].bold,
         max_size |-> SetMax({ws[k].size : k \in ks}),
         ws |-> ws]

\* ws is the line's words, kept in the line record for the properties of tokens
\* (the script's line dict does not hold them)
_pack_line(ws0) ==
    LET ws == Sorted(ws0, [i, j \in 1..Len(ws0) |-> ByX0(ws0[i], ws0[j])])
        ks == 1..Len(ws)
    IN  [text |-> Strip(JoinTexts(ws, 1)),
         x0 |-> SetMin({ws[k].x0 : k \in ks}),
         x1 |-> SetMax({ws[k].x1 : k \in ks}),
         top |-> SetMin({ws[k].top : k \in ks}),
         doctop |-> SetMin({ws[k].doctop : k \in ks}),
         bold |-> \E k \in ks : ws[k].bold,
         max_size |-> SetMax({ws[k].size : k \in ks}),
         ws |-> ws]

\* the loop of words_to_lines from word i on: lines closed so far, the open
\* line cur and its running top (the minimum top seen in it)
RECURSIVE LinesFrom(_, _, _, _, _, _)
LinesFrom(ws, i, lines, cur, cur_top, y_tol) ==
    IF i > Len(ws)
    THEN (IF cur # <<>> THEN Append(lines, _pack_line(cur)) ELSE lines)
    ELSE LET w == ws[i]
         IN  IF cur = <<>> \/ Abs(w.top - cur_top) <= y_tol
             THEN LinesFrom(ws, i + 1, lines, Append(cur, w),
                            IF cur = <<>> THEN w.top
                            ELSE (IF w.top < cur_top THEN w.top ELSE cur_top), y_tol)
             ELSE LinesFrom(ws, i + 1, Append(lines, _pack_line(cur)), <<w>>, w.top, y_tol)

\* lines.sort(key=lambda ln: ln["doctop"])
SortByDoctop(lines) ==
    Sorted(lines, [i, j \in 1..Len(lines) |-> ByDoctop(lines[i], lines[j])])

words_to_lines(words, y_tol) ==
    IF words = <<>> THEN <<>>
    ELSE SortByDoctop(LinesFrom(SortByDoctopX0(words), 1, <<>>, <<>>, 0, y_tol))

(***************************************************************************)
(* Heading and sentence heuristics                                         *)
(***************************************************************************)
\* re.sub(r"[^A-Za-z]+", "", t)
RECURSIVE LettersFrom(_, _)
LettersFrom(t, i) ==
    IF i > Len(t) THEN ""
    ELSE (IF Ch(t, i) \in (UPPERS \cup LOWERS) THEN Ch(t, i) ELSE "") \o LettersFrom(t, i + 1)

\* re.match(r"^[RG]\s+[A-Z][a-z]+(?:\b|:)", t): after the longest run of
\* lower-case letters the next character is no word character
TitleStub(t) ==
    /\ Len(t) >= 1 /\ Ch(t, 1) \in {"R", "G"}
    /\ LET a == RunEnd(t, 2, WS)
       IN  /\ a > 2
           /\ a <= Len(t) /\ Ch(t, a) \in UPPERS
           /\ LET b == RunEnd(t, a + 1, LOWERS)
              IN  /\ b > a + 1
                  /\ (b > Len(t) \/ Ch(t, b) \notin WORDCH)

looks_like_heading(ln, heading_size_min) ==
    LET t == Strip(ln.text)
        is_big == ln.max_size >= heading_size_min
        is_bold == ln.bold
        letters == LettersFrom(t, 1)
    IN  IF t = "" THEN FALSE
        ELSE IF TitleStub(t) /\ Len(t) <= 80 /\ ~HasAny(t, {".", ";"}) THEN TRUE
        ELSE IF is_big /\ is_bold
        THEN \/ letters # "" /\ ~HasAny(letters, LOWERS) /\ 3 <= Len(letters) /\ Len(letters) <= 40
             \/ Len(t) <= 80 /\ ~HasAny(t, {".", ";", ":"})
        ELSE FALSE

looks_sentence_like(txt) ==
    LET t == Strip(txt)
    IN  IF t = "" THEN FALSE
        ELSE HasAny(t, LOWERS) /\ (HasAny(t, {".", ";", ":", ")"}) \/ Len(t) > 60)

(***************************************************************************)
(* Anchor detection                                                        *)
(***************************************************************************)
UpperCh(c) ==
    IF c \in LOWERS
    THEN Ch(UpperStr, CHOOSE i \in 1..26 : Ch(LowerStr, i) = c)
    ELSE c

RECURSIVE UpperFrom(_, _)
UpperFrom(s, i) ==
    IF i > Len(s) THEN "" ELSE UpperCh(Ch(s, i)) \o UpperFrom(s, i + 1)

\* str.upper()
Upper(s) == UpperFrom(s, 1)

AllIn(s, class) == \A i \in 1..Len(s) : Ch(s, i) \in class

\* ID_TOKEN_RE.match(s) (case-sensitive):
\*   ^(?P<chapter>\d+[A-Z]?)\.(?P<section>\d+)\.(?P<rule>\d+(?:-[A-Z]|[A-Z])?)(?P<trail>[A-Z]{1,2})?$
\* The optional rule suffix is tried before the trail, so the first letter
\* after the rule's digits always goes to the rule group; the trail gets the
\* one or two letters after it, when there are any.
ID_TOKEN_RE(s) ==
    LET n == Len(s)
        a == RunEnd(s, 1, DIGITS)
        a2 == IF a <= n /\ Ch(s, a) \in UPPERS THEN a + 1 ELSE a
        b0 == a2 + 1
        b == RunEnd(s, b0, DIGITS)
        c0 == b + 1
        c == RunEnd(s, c0, DIGITS)
        rest == SubSeq(s, c, n)
        sl == IF rest = "" THEN 0
              ELSE IF Ch(rest, 1) = "-"
                   THEN (IF Len(rest) >= 2 /\ Ch(rest, 2) \in UPPERS THEN 2 ELSE 0 - 1)
                   ELSE (IF Ch(rest, 1) \in UPPERS THEN 1 ELSE 0 - 1)
        trail == SubSeq(rest, sl + 1, Len(rest))
        ok == /\ a > 1
              /\ a2 <= n /\ Ch(s, a2) = "."
              /\ b > b0
              /\ b <= n /\ Ch(s, b) = "."
              /\ c > c0
              /\ sl >= 0
              /\ Len(trail) <= 2 /\ AllIn(trail, UPPERS)
    IN  IF ok
        THEN [ok |-> TRUE, chapter |-> SubSeq(s, 1, a2 - 1), section |-> SubSeq(s, b0, b - 1),
              rule |-> SubSeq(s, c0, c - 1 + sl), trail |-> trail]
        ELSE [ok |-> FALSE, chapter |-> "", section |-> "", rule |-> "", trail |-> ""]

TYPE_MARKERS == {"R", "G", "E", "BG", "C"}

\* CASS_RE.match(s), re.I:  ^CASS$
CASS_RE(s) == Lower(s) = "cass"

\* TYPE_ONLY_RE.match(s), re.I:  ^(R|G|E|BG|C)$
TYPE_ONLY_RE(s) == Upper(s) \in TYPE_MARKERS

\* SECTION_RE.match(s), re.I:  ^\s*Section\s*:\s*CASS\s+\d+[A-Z]?\.\d+
SECTION_RE(s) ==
    LET t == Lower(s)
        a == MatchFrom(t, 1, <<Ws0, Lit("section"), Ws0, Lit(":"), Ws0, Lit("cass"), Ws1, D1>>, 1)
        a2 == IF a # 0 /\ a <= Len(t) /\ Ch(t, a) \in LOWERS THEN a + 1 ELSE a
    IN  /\ a # 0
        /\ a2 + 1 <= Len(t)
        /\ Ch(t, a2) = "."
        /\ Ch(t, a2 + 1) \in DIGITS

\* typ is "" where the script has None
norm_type(t) == IF Upper(t) = "R" THEN "R" ELSE "G"

InGutter(w, W) == 100 * w.x0 < LEFT_MAX_PCT * W

\* the "same-line adjacent type?" test on toks[j + 1]
SameLineType(toks, j, W, type_dx, type_dy) ==
    /\ j + 1 <= Len(toks)
    /\ LET cand == toks[j]
           nxt == toks[j + 1]
       IN  /\ InGutter(nxt, W)
           /\ Abs(nxt.doctop - cand.doctop) <= type_dy
           /\ 0 <= nxt.x0 - cand.x1 /\ nxt.x0 - cand.x1 <= type_dx
           /\ TYPE_ONLY_RE(nxt.text)

\* the "next very-close line still in left gutter" test on toks[j + 1]
\* a detector without the next-line fallback
NextLineNever(toks, j, W, type_dy) == FALSE

NextLineType(toks, j, W, type_dy) ==
    /\ j + 1 <= Len(toks)
    /\ LET cand == toks[j]
           nxt == toks[j + 1]
       IN  /\ InGutter(nxt, W)
           /\ 0 < nxt.doctop - cand.doctop /\ nxt.doctop - cand.doctop <= type_dy
           /\ TYPE_ONLY_RE(nxt.text)

Max2(a, b) == IF a >= b THEN a ELSE b
Min2(a, b) == IF a <= b THEN a ELSE b

\* the type and start_x the script settles on for an identifier token with
\* right edge cand_x1 and glued trail trail, followed by the token nxt, given
\* the outcome of the same-line test (same) and of the next-line test
\* (next_line) on nxt: the same-line standalone token first, then the glued
\* trail, then the next-line token
ResolveFrom(cand_x1, trail, nxt, same, next_line) ==
    LET typ1 == IF same THEN Upper(nxt.text) ELSE ""
        x1 == IF same THEN Max2(cand_x1, nxt.x1) ELSE cand_x1
        typ2 == IF typ1 = "" /\ trail \in TYPE_MARKERS THEN trail ELSE typ1
        below == typ2 = "" /\ next_line
    IN  [typ |-> IF below THEN Upper(nxt.text) ELSE typ2,
         start_x |-> IF below THEN Max2(x1, nxt.x1) ELSE x1]

ResolveType(toks, j, W, type_dx, type_dy) ==
    ResolveFrom(toks[j].x1, Upper(ID_TOKEN_RE(toks[j].text).trail),
                IF j + 1 <= Len(toks) THEN toks[j + 1] ELSE toks[j],
                SameLineType(toks, j, W, type_dx, type_dy),
                NextLineType(toks, j, W, type_dy))

\* the dict appended for the "CASS" token t and the identifier token cand,
\* given the match gd and the resolved type res.  idtok, same and below are
\* not fields of the script's dict: they record the identifier token's text
\* and the texts of the standalone type tokens found on the same line and on
\* the next line ("" when none).
AnchorDict(t, cand, gd, res, pi, same_text, below_text) ==
    [kind |-> "rule",
     id |-> gd.chapter \o "." \o gd.section \o "." \o gd.rule,
     type |-> norm_type(res.typ),
     page |-> pi,
     doctop |-> Min2(t.doctop, cand.doctop),
     x1 |-> res.start_x,
     idtok |-> cand.text,
     same |-> same_text,
     below |-> below_text]

\* the anchor appended for the "CASS" token toks[i] and the identifier token
\* toks[j]
RuleAnchor(toks, i, j, pi, W, type_dx, type_dy) ==
    AnchorDict(toks[i], toks[j], ID_TOKEN_RE(toks[j].text),
               ResolveType(toks, j, W, type_dx, type_dy), pi,
               IF SameLineType(toks, j, W, type_dx, type_dy) THEN toks[j + 1].text ELSE "",
               IF NextLineType(toks, j, W, type_dy) THEN toks[j + 1].text ELSE "")

SectionAnchor(t, pi) ==
    [kind |-> "section", id |-> "", type |-> "", page |-> pi, doctop |-> t.doctop,
     x1 |-> t.x1, idtok |-> "", same |-> "", below |-> ""]

\* the inner while loop: seek the identifier token on the band of toks[i]
RECURSIVE SeekId(_, _, _, _, _, _, _, _)
SeekId(toks, i, j, pi, W, y_tol, type_dx, type_dy) ==
    IF j > Len(toks) \/ Abs(toks[j].doctop - toks[i].doctop) > y_tol THEN <<>>
    ELSE IF ~InGutter(toks[j], W) THEN <<>>
    ELSE IF ID_TOKEN_RE(toks[j].text).ok
         THEN <<RuleAnchor(toks, i, j, pi, W, type_dx, type_dy)>>
         ELSE SeekId(toks, i, j + 1, pi, W, y_tol, type_dx, type_dy)

\* the outer while loop over the tokens of page pi, from token i on
RECURSIVE PageAnchorsFrom(_, _, _, _, _, _, _)
PageAnchorsFrom(toks, i, pi, W, y_tol, type_dx, type_dy) ==
    IF i > Len(toks) THEN <<>>
    ELSE LET t == toks[i]
             here == IF ~InGutter(t, W) THEN <<>>
                     ELSE IF CASS_RE(t.text)
                          THEN SeekId(toks, i, i + 1, pi, W, y_tol, type_dx, type_dy)
                     ELSE IF SECTION_RE(t.text) THEN <<SectionAnchor(t, pi)>>
                     ELSE <<>>
         IN  here \o PageAnchorsFrom(toks, i + 1, pi, W, y_tol, type_dx, type_dy)

RECURSIVE AnchorsFromPage(_, _, _, _, _)
AnchorsFromPage(pages, pi, y_tol, type_dx, type_dy) ==
    IF pi >= Len(pages) THEN <<>>
    ELSE PageAnchorsFrom(words_sorted(pages, pi), 1, pi, pages[pi + 1].width,
                         y_tol, type_dx, type_dy)
         \o AnchorsFromPage(pages, pi + 1, y_tol, type_dx, type_dy)

ByPageDoctop(a, b) == a.page < b.page \/ (a.page = b.page /\ a.doctop <= b.doctop)

\* anchors.sort(key=lambda a: (a["page"], a["doctop"]))
SortByPageDoctop(ancs) ==
    Sorted(ancs, [i, j \in 1..Len(ancs) |-> ByPageDoctop(ancs[i], ancs[j])])

detect_anchors(pages, y_tol, type_dx, type_dy) ==
    SortByPageDoctop(AnchorsFromPage(pages, 0, y_tol, type_dx, type_dy))

(***************************************************************************)
(* Body harvesting                                                         *)
(***************************************************************************)
\* float("inf"): above every doctop of a bounded document
INF == 1000000

InRightColumn(ln, W) == 100 * ln.x0 >= RIGHT_MIN_PCT * W

\* the loop over the anchor's own page, from line i on
RECURSIVE StartPageFrom(_, _, _, _, _, _, _, _)
StartPageFrom(lines, i, start_y, same_page_end, end_y, start_bar, heading_size_min, first_kept) ==
    IF i > Len(lines) THEN <<>>
    ELSE LET ln == lines[i]
             skip == StartPageFrom(lines, i + 1, start_y, same_page_end, end_y, start_bar,
                                   heading_size_min, first_kept)
             keep == <<ln>> \o StartPageFrom(lines, i + 1, start_y, same_page_end, end_y,
                                             start_bar, heading_size_min, TRUE)
         IN  IF ln.doctop < start_y THEN skip
             ELSE IF same_page_end /\ ln.doctop >= end_y THEN <<>>
             ELSE IF ln.x0 <= start_bar THEN skip
             ELSE IF should_drop_line_text(ln.text) THEN skip
             ELSE IF looks_like_heading(ln, heading_size_min)
                  THEN (IF ~first_kept /\ looks_sentence_like(ln.text) THEN keep ELSE skip)
                  ELSE keep

\* the loop over one intermediate page
RECURSIVE SpillPageFrom(_, _, _, _)
SpillPageFrom(lines, i, W, heading_size_min) ==
    IF i > Len(lines) THEN <<>>
    ELSE LET ln == lines[i]
             rest == SpillPageFrom(lines, i + 1, W, heading_size_min)
         IN  IF ~InRightColumn(ln, W) THEN rest
             ELSE IF should_drop_line_text(ln.text) \/ looks_like_heading(ln, heading_size_min)
                  THEN rest
                  ELSE <<ln>> \o rest

\* the loop over the pages start_page+1 .. end_page-1, from page p on
RECURSIVE SpillFrom(_, _, _, _, _)
SpillFrom(page_lines, widths, p, end_page, heading_size_min) ==
    IF p >= end_page THEN <<>>
    ELSE SpillPageFrom(page_lines[p + 1], 1, widths[p + 1], heading_size_min)
         \o SpillFrom(page_lines, widths, p + 1, end_page, heading_size_min)

\* the loop over the next anchor's page, up to end_y
RECURSIVE EndPageFrom(_, _, _, _, _)
EndPageFrom(lines, i, end_y, W, heading_size_min) ==
    IF i > Len(lines) THEN <<>>
    ELSE LET ln == lines[i]
             rest == EndPageFrom(lines, i + 1, end_y, W, heading_size_min)
         IN  IF ln.doctop >= end_y THEN <<>>
             ELSE IF ~InRightColumn(ln, W) THEN rest
             ELSE IF should_drop_line_text(ln.text) \/ looks_like_heading(ln, heading_size_min)
                  THEN rest
                  ELSE <<ln>> \o rest

\* page_lines = [words_to_lines(words_sorted(p), y_tol) for p in pdf.pages]
PageLines(pages, y_tol) ==
    [p \in 1..Len(pages) |-> words_to_lines(words_sorted(pages, p - 1), y_tol)]

Widths(pages) == [p \in 1..Len(pages) |-> pages[p].width]

\* raw_lines of the anchor anchors[idx] (idx counts from 1)
RawLines(pages, ancs, k, y_tol, body_margin, heading_size_min) ==
    LET anc == ancs[k]
        page_lines == PageLines(pages, y_tol)
        widths == Widths(pages)
        start_page == anc.page
        start_y == anc.doctop
        end_page == IF k + 1 <= Len(ancs) THEN ancs[k + 1].page ELSE start_page
        end_y == IF k + 1 <= Len(ancs) THEN ancs[k + 1].doctop ELSE INF
        start_bar == anc.x1 + body_margin
    IN  StartPageFrom(page_lines[start_page + 1], 1, start_y, end_page = start_page, end_y,
                      start_bar, heading_size_min, FALSE)
        \o (IF end_page > start_page
            THEN SpillFrom(page_lines, widths, start_page + 1, end_page, heading_size_min)
                 \o EndPageFrom(page_lines[end_page + 1], 1, end_y, widths[end_page + 1],
                                heading_size_min)
            ELSE <<>>)

\* the parts of s between the periods: s.split(".")
RECURSIVE SplitDotFrom(_, _, _)
SplitDotFrom(s, i, cur) ==
    IF i > Len(s) THEN <<cur>>
    ELSE IF Ch(s, i) = "." THEN <<cur>> \o SplitDotFrom(s, i + 1, "")
         ELSE SplitDotFrom(s, i + 1, cur \o Ch(s, i))

SplitDot(s) == SplitDotFrom(s, 1, "")

\* the record stored for an anchor; the constant placeholders (title, summary,
\* risk_ids, default_control_ids, applicability_conditions) are left out
Record(anc, txt) ==
    [id |-> anc.id, chapter |-> SplitDot(anc.id)[1], type |-> anc.type, text |-> txt,
     display |-> "CASS " \o anc.id]

(***************************************************************************)
(* A dict keyed by (id, type) is the sequence of its values in insertion   *)
(* order; no two elements share a key.                                     *)
(***************************************************************************)
KeyOf(rec) == <<rec.id, rec.type>>

HasKey(d, key) == \E i \in 1..Len(d) : KeyOf(d[i]) = key

Get(d, key) == d[CHOOSE i \in 1..Len(d) : KeyOf(d[i]) = key]

\* d[key] = rec
Put(d, rec) ==
    IF HasKey(d, KeyOf(rec))
    THEN [i \in 1..Len(d) |-> IF KeyOf(d[i]) = KeyOf(rec) THEN rec ELSE d[i]]
    ELSE Append(d, rec)

\* a dict in which the last body stored for a key wins
KeepLast(d, rec) == Put(d, rec)

\* if not prev or len(text) > len(prev["text"]): d[key] = rec
KeepLonger(d, rec) ==
    IF ~HasKey(d, KeyOf(rec)) \/ Len(rec.text) > Len(Get(d, KeyOf(rec)).text)
    THEN Put(d, rec)
    ELSE d

\* for k, v in bodies.items(): keep the longer of v and all_entries[k]
RECURSIVE MergeFrom(_, _, _)
MergeFrom(entries, bodies, i) ==
    IF i > Len(bodies) THEN entries
    ELSE MergeFrom(KeepLonger(entries, bodies[i]), bodies, i + 1)

(***************************************************************************)
(* Sort order                                                              *)
(***************************************************************************)
CHAPTER_ORDER == <<"1", "1A", "3", "5", "6", "7">>

\* the code-point order of the characters of chapter labels and rule suffixes
OrdStr == "-0123456789ABCDEFGHIJKLMNOPQRSTUVWXYZ"
Ord(c) == CHOOSE i \in 1..Len(OrdStr) : Ch(OrdStr, i) = c

\* a < b, a = b or a > b for Python strings: -1, 0, 1
RECURSIVE StrCmpFrom(_, _, _)
StrCmpFrom(a, b, i) ==
    IF i > Len(a) /\ i > Len(b) THEN 0
    ELSE IF i > Len(a) THEN 0 - 1
    ELSE IF i > Len(b) THEN 1
    ELSE IF Ord(Ch(a, i)) < Ord(Ch(b, i)) THEN 0 - 1
    ELSE IF Ord(Ch(a, i)) > Ord(Ch(b, i)) THEN 1
    ELSE StrCmpFrom(a, b, i + 1)

StrCmp(a, b) == StrCmpFrom(a, b, 1)

DigitVal(c) == (CHOOSE i \in 1..10 : Ch("0123456789", i) = c) - 1

\* int(s) of a string of digits
RECURSIVE IntOfFrom(_, _, _)
IntOfFrom(s, i, acc) ==
    IF i > Len(s) THEN acc ELSE IntOfFrom(s, i + 1, 10 * acc + DigitVal(Ch(s, i)))

IntOf(s) == IntOfFrom(s, 1, 0)

\* "".join(ch for ch in c if ch.isdigit()) and its complement
RECURSIVE FilterFrom(_, _, _, _)
FilterFrom(s, i, class, want) ==
    IF i > Len(s) THEN ""
    ELSE (IF (Ch(s, i) \in class) = want THEN Ch(s, i) ELSE "")
         \o FilterFrom(s, i + 1, class, want)

sort_key(rec) ==
    LET chap == rec.chapter
        chap_idx == IF \E i \in 1..Len(CHAPTER_ORDER) : CHAPTER_ORDER[i] = chap
                    THEN (CHOOSE i \in 1..Len(CHAPTER_ORDER) : CHAPTER_ORDER[i] = chap) - 1
                    ELSE 99
        parts == SplitDot(rec.id)
        digits == FilterFrom(parts[3], 1, DIGITS, TRUE)
    IN  [chap_idx |-> chap_idx,
         a |-> parts[1],
         sec |-> IntOf(parts[2]),
         rule_num |-> IF digits = "" THEN 0 ELSE IntOf(digits),
         rule_suf |-> FilterFrom(parts[3], 1, DIGITS, FALSE),
         t_rank |-> IF rec.type = "R" THEN 0 ELSE 1]

\* k1 <= k2 for the key tuples, compared field by field from the left
KeyLessEq(k1, k2) ==
    IF k1.chap_idx # k2.chap_idx THEN k1.chap_idx < k2.chap_idx
    ELSE IF StrCmp(k1.a, k2.a) # 0 THEN StrCmp(k1.a, k2.a) < 0
    ELSE IF k1.sec # k2.sec THEN k1.sec < k2.sec
    ELSE IF k1.rule_num # k2.rule_num THEN k1.rule_num < k2.rule_num
    ELSE IF StrCmp(k1.rule_suf, k2.rule_suf) # 0 THEN StrCmp(k1.rule_suf, k2.rule_suf) < 0
    ELSE k1.t_rank <= k2.t_rank

\* an order that leaves the records as they were inserted
ByInsertion(r1, r2) == TRUE

BySortKey(r1, r2) == KeyLessEq(sort_key(r1), sort_key(r2))

\* sorted(all_entries.values(), key=sort_key)
SortedItems(entries) ==
    Sorted(entries, [i, j \in 1..Len(entries) |-> BySortKey(entries[i], entries[j])])

(***************************************************************************)
(* Input documents.  A document is named by a descriptor; DocPages gives   *)
(* its pages.  Pages are PAGE_WIDTH wide: the left gutter ends at x = 92   *)
(* and the right column of a spill page starts at x = 84.                  *)
(***************************************************************************)
PAGE_WIDTH == 200

B_10 == "See above."
B_S1 == "Adequate records must be kept."
B_A == "A firm must keep records of client money held."
B_B == "A firm must keep adequate records and accounts of all client money."
B_C == "A firm must hold adequate records and accounts of all client money."
B_D == "and must reconcile them on each business day."
B_E == "This continues on the next page of the handbook text."

\* title stubs; H_S is also sentence-like (it holds a colon)
H_1 == "G Purpose"
H_2 == "R Application"
H_3 == "G Scope"
H_4 == "R Records"
H_S == "R Application of the rule: a firm"

Tok(txt, x0, x1, top) ==
    [text |-> txt, x0 |-> x0, x1 |-> x1, top |-> top, bold |-> FALSE, size |-> 10]

BoldTok(txt, x0, x1, top) ==
    [text |-> txt, x0 |-> x0, x1 |-> x1, top |-> top, bold |-> TRUE, size |-> 10]

\* the words of a text: its parts between single spaces
RECURSIVE WordsFrom(_, _, _)
WordsFrom(s, i, cur) ==
    IF i > Len(s) THEN <<cur>>
    ELSE IF Ch(s, i) = " " THEN <<cur>> \o WordsFrom(s, i + 1, "")
         ELSE WordsFrom(s, i + 1, cur \o Ch(s, i))

\* one printed line of body text: its words from x on, all at the same top
BodyLine(txt, x, top) ==
    LET ws == WordsFrom(txt, 1, "")
    IN  [k \in 1..Len(ws) |-> Tok(ws[k], x + 5 * (k - 1), x + 5 * (k - 1) + 4, top)]

\* "CASS", the identifier token and, when there is one, the type marker on
\* the same line (2 points right of the identifier) or on the next line
\* (3 points lower)
Cluster(idtok, place, mark, x, top) ==
    <<Tok("CASS", x, x + 8, top), Tok(idtok, x + 10, x + 22, top)>>
    \o (IF place = "same" THEN <<Tok(mark, x + 24, x + 27, top)>>
        ELSE IF place = "below" THEN <<Tok(mark, x, x + 3, top + 3)>>
        ELSE <<>>)

Page(words) == [width |-> PAGE_WIDTH, words |-> words]

Doc(kind, idtok, place, mark, body, body2, rtop, btop) ==
    [kind |-> kind, idtok |-> idtok, place |-> place, mark |-> mark, body |-> body,
     body2 |-> body2, rtop |-> rtop, btop |-> btop]

\* one rule: the cluster at the top of the gutter, one body line below it
TypeDocs ==
    {Doc("one", t, p[1], p[2], B_A, "", 0, 0) :
        t \in {"1.2.2", "1.2.2R", "1.2.2BG"},
        p \in {<<"none", "">>, <<"same", "R">>, <<"same", "G">>, <<"below", "R">>}}

BodyDocs ==
    {Doc("one", "1.2.2", "same", "R", b, "", 0, 0) : b \in {B_10, B_S1, B_A, B_B, B_C}}

\* scenario 1: "CASS 1.2.2" at top 10, a bold "R" below it at rtop, the body
\* line "Adequate records must be kept." in the right column at btop
S1Docs ==
    {Doc("s1", "1.2.2", "below", "R", B_S1, "", r, t) : r \in {13, 14}, t \in {10, 14, 18}}

\* the same rule printed twice in one document, with the bodies body and body2
TwoSameDocs ==
    {Doc("twosame", "1.2.2", "same", "R", b[1], b[2], 0, 0) :
        b \in {<<B_A, B_B>>, <<B_B, B_A>>, <<B_B, B_C>>, <<B_B, B_10>>}}

OtherDocs ==
    {Doc(k, "1.2.2", "same", "R", B_A, B_B, 0, 0) :
        k \in {"two", "leak_same", "leak_next", "band2", "cass2", "spill_last",
               "spill_mid", "no_anchor", "head_after", "head4", "head_sent"}}

Library == TypeDocs \cup BodyDocs \cup S1Docs \cup TwoSameDocs \cup OtherDocs

DocPages(d) ==
    CASE d.kind = "one" ->
            <<Page(Cluster(d.idtok, d.place, d.mark, 5, 10) \o BodyLine(d.body, 100, 20))>>
      [] d.kind = "s1" ->
            <<Page(<<Tok("CASS", 5, 13, 10), Tok(d.idtok, 15, 27, 10),
                     BoldTok(d.mark, 5, 8, d.rtop)>>
                   \o BodyLine(d.body, 100, d.btop))>>
      [] d.kind = "twosame" ->
            <<Page(Cluster(d.idtok, d.place, d.mark, 5, 10) \o BodyLine(d.body, 100, 20)
                   \o Cluster(d.idtok, d.place, d.mark, 5, 40) \o BodyLine(d.body2, 100, 50))>>
      \* two rules in the gutter, each with its body below its cluster
      [] d.kind = "two" ->
            <<Page(Cluster("1.2.2", "same", "R", 5, 10) \o BodyLine(d.body, 100, 20)
                   \o Cluster("1.2.3", "same", "G", 5, 40) \o BodyLine(d.body2, 100, 50))>>
      \* the second rule is indented (x = 50) and the last line of the first
      \* rule's body sits 2 points above it
      [] d.kind = "leak_same" ->
            <<Page(Cluster("1.2.2", "same", "R", 5, 10) \o BodyLine(d.body, 100, 20)
                   \o BodyLine(B_D, 100, 38)
                   \o Cluster("1.2.3", "same", "G", 50, 40) \o BodyLine(d.body2, 100, 50))>>
      \* the second rule is on the next page, its "CASS" at x = 84, and the
      \* last line of the first rule's body sits 2 points above it
      [] d.kind = "leak_next" ->
            <<Page(Cluster("1.2.2", "same", "R", 5, 10) \o BodyLine(d.body, 100, 20)),
              Page(BodyLine(B_D, 100, 8)
                   \o <<Tok("CASS", 84, 86, 10), Tok("1.2.3", 88, 91, 10)>>
                   \o BodyLine(d.body2, 100, 20))>>
      \* two "CASS <id>" clusters on one band
      [] d.kind = "band2" ->
            <<Page(Cluster("1.2.2", "none", "", 5, 10) \o Cluster("1.2.3", "none", "", 30, 10)
                   \o BodyLine(d.body, 100, 20))>>
      \* "CASS CASS <id>" on one band
      [] d.kind = "cass2" ->
            <<Page(<<Tok("CASS", 5, 13, 10), Tok("CASS", 15, 23, 10), Tok("1.2.2", 25, 37, 10)>>
                   \o BodyLine(d.body, 100, 20))>>
      \* the document's last rule, its body continued on a second page
      [] d.kind = "spill_last" ->
            <<Page(Cluster("1.2.2", "same", "R", 5, 10) \o BodyLine(d.body, 100, 20)),
              Page(BodyLine(B_E, 100, 10))>>
      \* a body continued over a whole page and the top of the page after it
      [] d.kind = "spill_mid" ->
            <<Page(Cluster("1.2.2", "same", "R", 5, 10) \o BodyLine(d.body, 100, 20)),
              Page(BodyLine(B_E, 100, 10)),
              Page(BodyLine(B_D, 100, 10)
                   \o Cluster("1.2.3", "same", "G", 5, 30) \o BodyLine(d.body2, 100, 40))>>
      \* body text only
      [] d.kind = "no_anchor" ->
            <<Page(BodyLine(d.body, 100, 20))>>
      \* a title stub between two lines of the body
      [] d.kind = "head_after" ->
            <<Page(Cluster("1.2.2", "same", "R", 5, 10) \o BodyLine(d.body, 100, 20)
                   \o BodyLine(H_1, 100, 30) \o BodyLine(B_D, 100, 40))>>
      \* four title stubs above the body
      [] d.kind = "head4" ->
            <<Page(Cluster("1.2.2", "same", "R", 5, 10) \o BodyLine(H_1, 100, 20)
                   \o BodyLine(H_2, 100, 30) \o BodyLine(H_3, 100, 40)
                   \o BodyLine(H_4, 100, 50) \o BodyLine(d.body, 100, 60))>>
      \* a title stub, then a first line that is a title stub and a sentence
      [] d.kind = "head_sent" ->
            <<Page(Cluster("1.2.2", "same", "R", 5, 10) \o BodyLine(H_1, 100, 20)
                   \o BodyLine(H_S, 100, 30) \o BodyLine(d.body, 100, 40))>>

NoDoc == Doc("none", "", "", "", "", "", 0, 0)

(***************************************************************************)
(* main: the loop over the input files, then the sorted output             *)
(***************************************************************************)
MaxFiles == 2

MinBodyLens == {30, MIN_BODY_LEN_DEFAULT}

\* detect_anchors and harvest_bodies read nothing but the document and the
\* configuration, so what they compute for each document of the library is
\* tabulated once: its anchors, and for each anchor its raw_lines and text.
LibAnchors == [d \in Library |-> detect_anchors(DocPages(d), Y_TOL, TYPE_DX, TYPE_DY)]

LibPageLines == [d \in Library |-> PageLines(DocPages(d), Y_TOL)]

LibRaw ==
    [d \in Library |->
        [k \in 1..Len(LibAnchors[d]) |->
            IF LibAnchors[d][k].kind = "rule"
            THEN RawLines(DocPages(d), LibAnchors[d], k, Y_TOL, BODY_MARGIN, HEADING_SIZE_MIN)
            ELSE <<>>]]

LibText ==
    [d \in Library |->
        [k \in 1..Len(LibAnchors[d]) |-> Strip(reflow_paragraphs_from_lines(LibRaw[d][k]))]]

\* an iteration that stores the record whatever the length of its text
OutAfterNoFilter(d, anc, body_text, min_len) == KeepLonger(d, Record(anc, body_text))

\* what one iteration of the loop of harvest_bodies leaves in out, given the
\* reflowed text of the anchor
OutAfter(d, anc, body_text, min_len) ==
    IF Len(body_text) < min_len THEN d ELSE KeepLonger(d, Record(anc, body_text))

PipeIdle ==
    /\ pc = "idle" /\ min_body_len = 0 /\ nfiles = 0 /\ nopened = 0 /\ pdf = NoDoc
    /\ anchors = <<>> /\ idx = 0 /\ out = <<>> /\ raw_lines = <<>> /\ text = ""
    /\ all_entries = <<>> /\ items = <<>> /\ written = FALSE /\ status = "running"
    /\ harvested = {}
    /\ opened = <<>>

RfIdle == rf_pc = "idle" /\ rf_lines = <<>> /\ rf_text = "" /\ rf_again = ""

Init ==
    /\ pc = "loop"
    /\ min_body_len \in MinBodyLens
    /\ nfiles = 0
    /\ nopened = 0
    /\ pdf = NoDoc
    /\ anchors = <<>>
    /\ idx = 0
    /\ out = <<>>
    /\ raw_lines = <<>>
    /\ text = ""
    /\ all_entries = <<>>
    /\ items = <<>>
    /\ written = FALSE
    /\ status = "running"
    /\ harvested = {}
    /\ opened = <<>>
    /\ RfIdle

\* if not path.exists(): warn and continue
SkipMissing ==
    /\ pc = "loop"
    /\ nfiles < MaxFiles
    /\ nfiles' = nfiles + 1
    /\ UNCHANGED <<pc, min_body_len, nopened, pdf, anchors, idx, out, raw_lines, text,
                   all_entries, items, written, status, harvested, opened, rfvars>>

\* pdfplumber.open(path); detect_anchors; the start of harvest_bodies
OpenFile ==
    /\ pc = "loop"
    /\ nfiles < MaxFiles
    /\ \E d \in Library :
        /\ pdf' = d
        /\ anchors' = LibAnchors[d]
    /\ nfiles' = nfiles + 1
    /\ nopened' = nopened + 1
    /\ opened' = Append(opened, pdf')
    /\ idx' = 1
    /\ out' = <<>>
    /\ raw_lines' = <<>>
    /\ text' = ""
    /\ pc' = "harvest"
    /\ UNCHANGED <<min_body_len, all_entries, items, written, status, harvested, rfvars>>

\* one iteration of the loop of harvest_bodies over the anchors
HarvestAnchor ==
    /\ pc = "harvest"
    /\ idx <= Len(anchors)
    /\ LET anc == anchors[idx]
           raw == LibRaw[pdf][idx]
           txt == LibText[pdf][idx]
       IN  IF anc.kind # "rule"
           THEN UNCHANGED <<out, raw_lines, text, harvested>>
           ELSE /\ raw_lines' = raw
                /\ text' = txt
                /\ out' = OutAfter(out, anc, txt, min_body_len)
                /\ harvested' = IF Len(txt) < min_body_len THEN harvested
                                ELSE harvested \cup {[key |-> <<anc.id, anc.type>>, text |-> txt]}
    /\ idx' = idx + 1
    /\ UNCHANGED <<pc, min_body_len, nfiles, nopened, pdf, anchors, all_entries, items,
                   written, status, opened, rfvars>>

\* harvest_bodies returns; its bodies are merged into all_entries
MergeBodies ==
    /\ pc = "harvest"
    /\ idx > Len(anchors)
    /\ all_entries' = MergeFrom(all_entries, out, 1)
    /\ pc' = "loop"
    /\ UNCHANGED <<min_body_len, nfiles, nopened, pdf, anchors, idx, out, raw_lines, text,
                   items, written, status, harvested, opened, rfvars>>

\* after the last path: sort, write the YAML file, print "[ok] wrote ..."
WriteOutput ==
    /\ pc = "loop"
    /\ nfiles >= 1
    /\ items' = SortedItems(all_entries)
    /\ written' = TRUE
    /\ status' = "ok"
    /\ pc' = "done"
    /\ UNCHANGED <<min_body_len, nfiles, nopened, pdf, anchors, idx, out, raw_lines, text,
                   all_entries, harvested, opened, rfvars>>

Next == SkipMissing \/ OpenFile \/ HarvestAnchor \/ MergeBodies \/ WriteOutput

Spec == Init /\ [][Next]_vars

(***************************************************************************)
(* Reflow on bounded lists of lines                                        *)
(***************************************************************************)
MaxLines == 2

LineTexts ==
    {"adequ-", "ate records", "(1) first item", "(a) sub item", "(iv) fourth",
     "1. numbered", "The firm must:", "due in May", "2025 by the firm",
     "Page 1", "of 3", "Rights of", "Action lie", "September 2025", "....",
     "www.handbook.fca.org.uk", "kept."}

RECURSIVE SeqsUpTo(_, _)
SeqsUpTo(S, n) ==
    IF n = 0 THEN {<<>>}
    ELSE LET shorter == SeqsUpTo(S, n - 1)
         IN  shorter \cup {Append(q, x) : q \in shorter, x \in S}

TextLine(s) == [text |-> s]

RfInit ==
    /\ rf_pc = "start"
    /\ rf_lines \in {[i \in 1..Len(q) |-> TextLine(q[i])] : q \in SeqsUpTo(LineTexts, MaxLines)}
    /\ rf_text = ""
    /\ rf_again = ""
    /\ PipeIdle

ReflowOnce ==
    /\ rf_pc = "start"
    /\ rf_text' = reflow_paragraphs_from_lines(rf_lines)
    /\ rf_pc' = "once"
    /\ UNCHANGED <<rf_lines, rf_again, pipevars>>

ReflowAgain ==
    /\ rf_pc = "once"
    /\ rf_again' = reflow_paragraphs_from_lines(<<TextLine(rf_text)>>)
    /\ rf_pc' = "again"
    /\ UNCHANGED <<rf_lines, rf_text, pipevars>>

RfNext == ReflowOnce \/ ReflowAgain

SpecReflow == RfInit /\ [][RfNext]_vars

(***************************************************************************)
(* The sort on bounded sets of merged records                              *)
(***************************************************************************)
MaxRecs == 3

SortIds == {"1.2.2", "1.02.2", "1.2.2A", "1.2.9", "1.2.10", "1.9.1", "1.10.1", "1A.1.1", "8.1.1"}

SortRIds == {"1.2.2", "1.02.2", "1.9.1"}

SortRecs ==
    {Record([id |-> i, type |-> "G"], B_A) : i \in SortIds}
    \cup {Record([id |-> i, type |-> "R"], B_A) : i \in SortRIds}

\* all_entries after the loop over the files: no two of its records share (id, type)
SortInit ==
    /\ pc = "loop"
    /\ min_body_len = MIN_BODY_LEN_DEFAULT
    /\ nfiles = 1
    /\ nopened = 1
    /\ pdf = NoDoc
    /\ anchors = <<>>
    /\ idx = 1
    /\ out = <<>>
    /\ raw_lines = <<>>
    /\ text = ""
    /\ all_entries \in {q \in SeqsUpTo(SortRecs, MaxRecs) :
                           \A i, j \in 1..Len(q) : i # j => KeyOf(q[i]) # KeyOf(q[j])}
    /\ items = <<>>
    /\ written = FALSE
    /\ status = "running"
    /\ harvested = {}
    /\ opened = <<>>
    /\ RfIdle

SortNext == WriteOutput

SpecSort == SortInit /\ [][SortNext]_vars

(***************************************************************************)
(* Properties                                                              *)
(***************************************************************************)
Range(q) == {q[i] : i \in 1..Len(q)}

\* C1: when the run has ended, no two output records share (id, type); for
\* every body that passed the length filter the output holds a record of the
\* same key whose text is at least as long; and every output record's text is
\* one of the bodies harvested for its key.
DedupLongestWins ==
    pc = "done" =>
        /\ \A i, j \in 1..Len(items) : i # j => KeyOf(items[i]) # KeyOf(items[j])
        /\ \A h \in harvested :
              \E i \in 1..Len(items) :
                  KeyOf(items[i]) = h.key /\ Len(items[i].text) >= Len(h.text)
        /\ \A i \in 1..Len(items) :
              [key |-> KeyOf(items[i]), text |-> items[i].text] \in harvested

\* a run that ended after the longer of two bodies of one key was harvested
\* first and the shorter one second
DedupWitness ==
    /\ pc = "done"
    /\ nopened = 1
    /\ pdf.kind = "twosame" /\ Len(pdf.body) > Len(pdf.body2)
    /\ \E h1, h2 \in harvested : h1.key = h2.key /\ Len(h1.text) > Len(h2.text)
    /\ Len(items) = 1
    /\ items[1].text = pdf.body

\* C2: after the body of the rule anchor A = anchors[idx - 1] is harvested,
\* every token of every line in raw_lines has doctop >= A.doctop and
\* doctop < the next anchor's doctop, and every token on A's own page has
\* x0 > A.x1 + body margin.
BodyBoundary ==
    (pc = "harvest" /\ idx > 1 /\ anchors[idx - 1].kind = "rule") =>
        \A i \in 1..Len(raw_lines) :
            \A k \in 1..Len(raw_lines[i].ws) :
                LET w == raw_lines[i].ws[k]
                    A == anchors[idx - 1]
                IN  /\ w.doctop >= A.doctop
                    /\ idx <= Len(anchors) => w.doctop < anchors[idx].doctop
                    /\ w.pg = A.page => w.x0 > A.x1 + BODY_MARGIN

\* C3: a run that ends with an empty record map has written no output file
\* and has ended in failure.
EmptyResultFatal ==
    (pc = "done" /\ all_entries = <<>>) => (~written /\ status = "failed")

\* the type the resolution order glued trail, same-line token, next-line
\* token, default names for an anchor
ClaimedType(a) ==
    LET trail == Upper(ID_TOKEN_RE(a.idtok).trail)
    IN  norm_type(IF trail \in TYPE_MARKERS THEN trail
                  ELSE IF a.same # "" THEN Upper(a.same)
                  ELSE IF a.below # "" THEN Upper(a.below)
                  ELSE "")

\* C4: every rule anchor's type is the one named by the first present of: the
\* glued trailing letter, the standalone token on the same line, the
\* standalone token on the next line, the default G.
GluedTypeFirst ==
    pc = "harvest" =>
        \A k \in 1..Len(anchors) :
            anchors[k].kind = "rule" => anchors[k].type = ClaimedType(anchors[k])

\* scenario 1: one file, one of the scenario's pages
Scenario1Run == pc = "done" /\ nopened = 1 /\ pdf \in S1Docs

\* the body line's words are grouped into a line of their own
BodyOnOwnLine ==
    \E i \in 1..Len(LibPageLines[pdf][1]) : LibPageLines[pdf][1][i].text = pdf.body

Scenario1Record == Record([id |-> "1.2.2", type |-> "R"], B_S1)

\* C5 (as stated): under the default min-body-len, scenario 1 yields exactly
\* the record id=1.2.2, type=R, text="Adequate records must be kept.".
Scenario1Default ==
    (Scenario1Run /\ min_body_len = MIN_BODY_LEN_DEFAULT) => items = <<Scenario1Record>>

\* C5 (amended): scenario 1 yields exactly that record when min-body-len is
\* at most the 30 characters of the body and the body line is grouped into a
\* line of its own; under the default min-body-len of 40 it yields no record.
Scenario1 ==
    Scenario1Run =>
        /\ (min_body_len <= Len(B_S1) /\ BodyOnOwnLine) => items = <<Scenario1Record>>
        /\ min_body_len = MIN_BODY_LEN_DEFAULT => items = <<>>

Scenario1Witness ==
    /\ Scenario1Run
    /\ min_body_len = 30
    /\ BodyOnOwnLine
    /\ pdf.rtop = 13 /\ pdf.btop = 18
    /\ Len(items) = 1 /\ items[1].type = "R"

\* C6: an anchor whose reflowed text is shorter than min_body_len leaves out
\* as it was (no record added, replaced or removed), and every record of
\* out, of all_entries and of the output has len(text) >= min_body_len.
DegenerateBody ==
    [][/\ (pc = "harvest" /\ idx' = idx + 1 /\ anchors[idx].kind = "rule"
           /\ Len(text') < min_body_len) => out' = out
       /\ \A r \in Range(out') \cup Range(all_entries') \cup Range(items') :
              Len(r.text) >= min_body_len]_vars

\* a short body has just been harvested for a key that out already holds
DegenerateWitness ==
    /\ pc = "harvest"
    /\ idx > 1
    /\ anchors[idx - 1].kind = "rule"
    /\ Len(text) > 0 /\ Len(text) < min_body_len
    /\ HasKey(out, <<anchors[idx - 1].id, anchors[idx - 1].type>>)

\* adjacent output records are in key order
KeysAscend ==
    \A i \in 1..(Len(items) - 1) : KeyLessEq(sort_key(items[i]), sort_key(items[i + 1]))

\* pos of the output record with this id and type, 0 when there is none
PosOf(i, t) ==
    IF \E k \in 1..Len(items) : KeyOf(items[k]) = <<i, t>>
    THEN CHOOSE k \in 1..Len(items) : KeyOf(items[k]) = <<i, t>>
    ELSE 0

Before(i1, t1, i2, t2) ==
    (PosOf(i1, t1) > 0 /\ PosOf(i2, t2) > 0) => PosOf(i1, t1) < PosOf(i2, t2)

\* the section or the rule number of the id is written with a leading zero
LeadingZero(i) ==
    LET parts == SplitDot(i)
    IN  \E n \in 2..3 : Len(parts[n]) > 1 /\ Ch(parts[n], 1) = "0"

\* C7 (as stated): adjacent output records are in key order and no two output
\* records have equal keys.
SortTotal ==
    pc = "done" =>
        /\ KeysAscend
        /\ \A i, j \in 1..Len(items) : i # j => sort_key(items[i]) # sort_key(items[j])

\* C7 (amended): the output holds the merged records, adjacent ones in key
\* order: section 10 after section 9, rule 1.2.10 after 1.2.9, chapter 1A
\* after chapter 1 and before any chapter outside the preferred sequence, R
\* before G for one id; two output records have equal keys only when one of
\* their ids writes its section or rule number with a leading zero.
SortOrder ==
    pc = "done" =>
        /\ Len(items) = Len(all_entries) /\ Range(items) = Range(all_entries)
        /\ KeysAscend
        /\ \A t1, t2 \in {"R", "G"} :
              /\ Before("1.9.1", t1, "1.10.1", t2)
              /\ Before("1.2.9", t1, "1.2.10", t2)
              /\ Before("1.10.1", t1, "1A.1.1", t2)
              /\ Before("1A.1.1", t1, "8.1.1", t2)
              /\ Before("1.2.2", t1, "1.2.2A", t2)
        /\ \A i \in SortIds : Before(i, "R", i, "G")
        /\ \A i, j \in 1..Len(items) :
              (i # j /\ sort_key(items[i]) = sort_key(items[j]))
                  => (LeadingZero(items[i].id) \/ LeadingZero(items[j].id))

\* three records inserted in the reverse of their key order
SortWitness ==
    /\ pc = "done"
    /\ Len(all_entries) = 3
    /\ KeyOf(all_entries[1]) = <<"1.10.1", "G">>
    /\ KeyOf(all_entries[2]) = <<"1.9.1", "G">>
    /\ KeyOf(all_entries[3]) = <<"1.9.1", "R">>
    /\ KeyOf(items[1]) = <<"1.9.1", "R">>
    /\ KeyOf(items[3]) = <<"1.10.1", "G">>

\* C8: no two of a document's anchors share (page, doctop).
AnchorsUnique ==
    pc = "harvest" =>
        \A i, j \in 1..Len(anchors) :
            i # j => <<anchors[i].page, anchors[i].doctop>> # <<anchors[j].page, anchors[j].doctop>>

\* C9: the text returned by reflow, fed back as one single line, comes back
\* unchanged.
ReflowIdempotent == rf_pc = "again" => rf_again = rf_text

\* C10: after the body of the rule anchor A = anchors[idx - 1] is harvested,
\* raw_lines holds every right-column line of the pages after A's page that
\* lies before the next anchor (before the end of the document when A is the
\* last anchor) and is neither furniture nor a heading.
CrossPageBody ==
    (pc = "harvest" /\ idx > 1 /\ anchors[idx - 1].kind = "rule") =>
        LET A == anchors[idx - 1]
            end_y == IF idx <= Len(anchors) THEN anchors[idx].doctop ELSE INF
            pages == DocPages(pdf)
        IN  \A p \in (A.page + 1)..(Len(pages) - 1) :
                \A i \in 1..Len(LibPageLines[pdf][p + 1]) :
                    LET ln == LibPageLines[pdf][p + 1][i]
                    IN  (/\ ln.doctop < end_y
                         /\ InRightColumn(ln, pages[p + 1].width)
                         /\ ~should_drop_line_text(ln.text)
                         /\ ~looks_like_heading(ln, HEADING_SIZE_MIN))
                            => ln \in Range(raw_lines)

\* reflow has been applied to two lines, neither of them furniture
TwoBodyLines ==
    /\ rf_pc \in {"once", "again"}
    /\ Len(rf_lines) = 2
    /\ ~should_drop_line_text(rf_lines[1].text)
    /\ ~should_drop_line_text(rf_lines[2].text)

\* the line ends with a hyphen attached to a letter
HyphenBroken(s) ==
    /\ Len(s) >= 2
    /\ Ch(s, Len(s)) = "-"
    /\ Ch(s, Len(s) - 1) \in UPPERS \cup LOWERS

\* C11: when the first of two body lines ends with a hyphen attached to a
\* letter and the second is not a list line, the text is the first line
\* without its hyphen followed directly, with no space, by the second line.
DehyphenJoins ==
    (/\ TwoBodyLines
     /\ HyphenBroken(rf_lines[1].text)
     /\ ~LIST_START_RE(FirstToken(rf_lines[2].text)))
        => rf_text = SubSeq(rf_lines[1].text, 1, Len(rf_lines[1].text) - 1)
                     \o dehyphen(rf_lines[2].text)

\* a list marker of one of the four forms (1), (a), (i) roman, N.
ListMarker(tok) ==
    LET t == Lower(tok)
        n == Len(t)
    IN  \/ FullMatch(t, <<Lit("("), D1, Lit(")")>>)
        \/ n = 3 /\ Ch(t, 1) = "(" /\ Ch(t, 2) \in LOWERS /\ Ch(t, 3) = ")"
        \/ n >= 3 /\ Ch(t, 1) = "(" /\ Ch(t, n) = ")"
           /\ \A i \in 2..(n - 1) : Ch(t, i) \in ROMAN
        \/ FullMatch(t, <<D1, Lit(".")>>)

\* C12: when the second of two body lines starts with a list marker of any
\* of the four forms and the first line does not end with a colon, the second
\* line starts a new paragraph.
ListMarkerBreaks ==
    (/\ TwoBodyLines
     /\ ~EndsWith(rf_lines[1].text, ":")
     /\ ListMarker(FirstToken(rf_lines[2].text)))
        => rf_text = dehyphen(rf_lines[1].text) \o "\n\n" \o dehyphen(rf_lines[2].text)

\* the lines of the page of the rule anchor harvested last
OwnPageLines == LibPageLines[pdf][anchors[idx - 1].page + 1]

\* the indices of the lines of that page that lie in the anchor's body region
\* (from the anchor down to the next anchor when it is on the same page, right
\* of the start bar) and are not furniture
OwnPageBody ==
    {i \in 1..Len(OwnPageLines) :
        /\ OwnPageLines[i].doctop >= anchors[idx - 1].doctop
        /\ (idx <= Len(anchors) /\ anchors[idx].page = anchors[idx - 1].page)
               => OwnPageLines[i].doctop < anchors[idx].doctop
        /\ OwnPageLines[i].x0 > anchors[idx - 1].x1 + BODY_MARGIN
        /\ ~should_drop_line_text(OwnPageLines[i].text)}

\* those of them that were kept
OwnPageKept == {i \in OwnPageBody : OwnPageLines[i] \in Range(raw_lines)}

\* C13: on the anchor's own page at most 3 lines of the body region are
\* skipped before the first kept line, the first sentence-like line is kept,
\* and every non-furniture line after the first kept line is kept.
HeadingLeadingOnly ==
    (pc = "harvest" /\ idx > 1 /\ anchors[idx - 1].kind = "rule") =>
        /\ Cardinality({i \in OwnPageBody : \A k \in OwnPageKept : i < k}) <= 3
        /\ \A i \in OwnPageBody :
              (/\ looks_sentence_like(OwnPageLines[i].text)
               /\ \A j \in OwnPageBody :
                      j < i => ~looks_sentence_like(OwnPageLines[j].text))
                  => i \in OwnPageKept
        /\ \A i \in OwnPageBody :
              (\E k \in OwnPageKept : k < i) => i \in OwnPageKept

\* the orders of n things
Perms(n) == {p \in [1..n -> 1..n] : \A i, j \in 1..n : i # j => p[i] # p[j]}

\* the dict harvest_bodies builds for the document d when its loop visits the
\* anchors in the order given (order[i] is the index of the i-th one visited)
RECURSIVE HarvestIn(_, _, _, _, _)
HarvestIn(d, order, i, acc, min_len) ==
    IF i > Len(order) THEN acc
    ELSE HarvestIn(d, order, i + 1,
                   IF LibAnchors[d][order[i]].kind # "rule" THEN acc
                   ELSE OutAfter(acc, LibAnchors[d][order[i]], LibText[d][order[i]], min_len),
                   min_len)

\* all_entries after main's loop over the documents docs, from the i-th on
RECURSIVE MainOver(_, _, _, _)
MainOver(docs, i, entries, min_len) ==
    IF i > Len(docs) THEN entries
    ELSE MainOver(docs, i + 1,
                  MergeFrom(entries,
                            HarvestIn(docs[i], [k \in 1..Len(LibAnchors[docs[i]]) |-> k], 1,
                                      <<>>, min_len),
                            1),
                  min_len)

\* C14: the set of records a run ends with is the one every other order of
\* harvesting the anchors of a document, and every other order of processing
\* the documents, ends with.
OrderIndependent ==
    pc = "done" =>
        /\ \A n \in 1..Len(opened) :
              \A p \in Perms(Len(LibAnchors[opened[n]])) :
                  Range(HarvestIn(opened[n], p, 1, <<>>, min_body_len))
                      = Range(HarvestIn(opened[n], [k \in 1..Len(LibAnchors[opened[n]]) |-> k],
                                        1, <<>>, min_body_len))
        /\ \A p \in Perms(Len(opened)) :
              Range(MainOver([i \in 1..Len(opened) |-> opened[p[i]]], 1, <<>>, min_body_len))
                  = Range(all_entries)

\* the tokens of the lines in raw_lines
HarvestedTokens == UNION {Range(raw_lines[r].ws) : r \in 1..Len(raw_lines)}

\* the start bar of the rule anchor harvested last
StartBar == anchors[idx - 1].x1 + BODY_MARGIN

\* C15: after the body of the rule anchor A = anchors[idx - 1] is harvested,
\* each line words_to_lines made of A's page is in raw_lines whole or none of
\* its tokens is, and no token of a line that holds a token at or left of
\* A.x1 + body margin is in raw_lines.
LineWholeOrNot ==
    (pc = "harvest" /\ idx > 1 /\ anchors[idx - 1].kind = "rule") =>
        \A i \in 1..Len(OwnPageLines) :
            /\ \/ OwnPageLines[i] \in Range(raw_lines)
               \/ Range(OwnPageLines[i].ws) \cap HarvestedTokens = {}
            /\ (\E w \in Range(OwnPageLines[i].ws) : w.x0 <= StartBar)
                   => Range(OwnPageLines[i].ws) \cap HarvestedTokens = {}

\* the body line of scenario 1 sits on the band of "CASS 1.2.2": its tokens
\* are right of the start bar, the line is not harvested
LineWholeWitness ==
    /\ pc = "harvest" /\ idx = 2 /\ anchors[1].kind = "rule"
    /\ pdf \in S1Docs /\ pdf.btop = 10
    /\ \E i \in 1..Len(OwnPageLines) :
          /\ \E w \in Range(OwnPageLines[i].ws) : w.x0 <= StartBar
          /\ \E w \in Range(OwnPageLines[i].ws) : w.x0 > StartBar /\ w.text = "Adequate"
    /\ raw_lines = <<>>

====
